---- MODULE Spec2Model ----
(***************************************************************************)
(* Model of src/deploy/functions/isolate/lockfile.ts: pruning a pnpm       *)
(* lockfile to one package and its internal workspace dependencies, and    *)
(* rewriting "workspace:" links to file links of the isolated layout.      *)
(*                                                                         *)
(* Text is modelled as a sequence of one-character strings, so that        *)
(* startsWith, replace, path.join and path.relative are computed, not      *)
(* assumed.  A JavaScript object (Record, Map) is modelled as the sequence *)
(* of its <<key, value>> entries in insertion order; a Set as the sequence *)
(* of its members in insertion order.  An optional value is <<>> when it   *)
(* is undefined and <<v>> when it is v.                                    *)
(***************************************************************************)
EXTENDS Integers, Sequences, FiniteSets, TLC

(***************************************************************************)
(* Text                                                                    *)
(***************************************************************************)
None == <<>>
Some(v) == <<v>>

StartsWith(s, prefix) ==
  /\ Len(s) >= Len(prefix)
  /\ SubSeq(s, 1, Len(prefix)) = prefix

Last(s) == s[Len(s)]

RECURSIVE JoinWith(_, _)
\* Array.prototype.join: the segments of segs separated by sep.
JoinWith(segs, sep) ==
  IF segs = <<>> THEN <<>>
  ELSE IF Len(segs) = 1 THEN segs[1]
  ELSE segs[1] \o sep \o JoinWith(Tail(segs), sep)

RECURSIVE SplitAcc(_, _, _)
SplitAcc(s, cur, acc) ==
  IF s = <<>> THEN Append(acc, cur)
  ELSE IF s[1] = "/" THEN SplitAcc(Tail(s), <<>>, Append(acc, cur))
  ELSE SplitAcc(Tail(s), Append(cur, s[1]), acc)

\* s.split("/"): the segments between the slashes of s (empty ones kept).
SplitSlash(s) == SplitAcc(s, <<>>, <<>>)

(***************************************************************************)
(* String literals of the source                                           *)
(***************************************************************************)
WorkspacePrefix == <<"w", "o", "r", "k", "s", "p", "a", "c", "e", ":">>
FilePrefix == <<"f", "i", "l", "e", ":">>
LinkPrefix == <<"l", "i", "n", "k", ":">>
WorkspacesKeyPrefix == <<"w", "o", "r", "k", "s", "p", "a", "c", "e", "s", "/">>
DotSlash == <<".", "/">>
Dot == <<".">>
DotDot == <<".", ".">>
Slash == <<"/">>
RootImporter == <<".">>

(***************************************************************************)
(* Node's posix path module, as lockfile.ts uses it                        *)
(***************************************************************************)
\* process.cwd(): where path.resolve anchors a relative path.
Cwd == <<"/", "c", "w", "d">>

RECURSIVE NormalizeSegs(_, _, _)
\* normalizeString: drops "" and "." segments and folds "..".
NormalizeSegs(segs, allowAboveRoot, res) ==
  IF segs = <<>> THEN res
  ELSE
    LET seg == segs[1]
        rest == Tail(segs)
    IN IF seg = <<>> \/ seg = Dot THEN NormalizeSegs(rest, allowAboveRoot, res)
       ELSE IF seg = DotDot THEN
         IF res # <<>> /\ Last(res) # DotDot
           THEN NormalizeSegs(rest, allowAboveRoot, SubSeq(res, 1, Len(res) - 1))
         ELSE IF allowAboveRoot
           THEN NormalizeSegs(rest, allowAboveRoot, Append(res, DotDot))
         ELSE NormalizeSegs(rest, allowAboveRoot, res)
       ELSE NormalizeSegs(rest, allowAboveRoot, Append(res, seg))

IsAbsolute(p) == p # <<>> /\ p[1] = "/"

\* path.normalize
PathNormalize(p) ==
  IF p = <<>> THEN Dot
  ELSE
    LET abs == IsAbsolute(p)
        trailing == Last(p) = "/"
        body == JoinWith(NormalizeSegs(SplitSlash(p), ~abs, <<>>), Slash)
        body2 == IF body = <<>> /\ ~abs THEN Dot ELSE body
        body3 == IF body2 # <<>> /\ trailing /\ ~(body = <<>> /\ abs)
                   THEN body2 \o Slash ELSE body2
    IN IF abs THEN Slash \o body3 ELSE body3

\* path.join(a, b)
PathJoin(a, b) ==
  LET joined == IF a = <<>> THEN b
                ELSE IF b = <<>> THEN a
                ELSE a \o Slash \o b
  IN PathNormalize(joined)

\* path.resolve(p), as the list of its segments below the root.
ResolveSegs(p) ==
  NormalizeSegs(SplitSlash(IF IsAbsolute(p) THEN p ELSE Cwd \o Slash \o p),
                FALSE, <<>>)

RECURSIVE CommonLen(_, _)
\* Number of leading segments a and b share.
CommonLen(a, b) ==
  IF a = <<>> \/ b = <<>> \/ a[1] # b[1] THEN 0
  ELSE 1 + CommonLen(Tail(a), Tail(b))

\* path.relative(from, to)
PathRelative(from, to) ==
  IF from = to THEN <<>>
  ELSE
    LET f == ResolveSegs(from)
        t == ResolveSegs(to)
        n == CommonLen(f, t)
        ups == [i \in 1..(Len(f) - n) |-> DotDot]
        downs == SubSeq(t, n + 1, Len(t))
    IN JoinWith(ups \o downs, Slash)

(***************************************************************************)
(* JavaScript objects, Maps and Sets                                       *)
(***************************************************************************)
\* Object.keys(o)
Keys(o) == {o[i][1] : i \in DOMAIN o}

Has(o, k) == k \in Keys(o)

\* o[k] for a key o has.
Get(o, k) == o[CHOOSE i \in DOMAIN o : o[i][1] = k][2]

\* o[k], Map.get(k): undefined when the key is missing.
Lookup(o, k) == IF Has(o, k) THEN Some(Get(o, k)) ELSE None

\* o[k] = v, Map.set(k, v): an existing key keeps its place, a new one goes last.
Put(o, k, v) ==
  IF Has(o, k)
    THEN [i \in DOMAIN o |-> IF o[i][1] = k THEN <<k, v>> ELSE o[i]]
    ELSE Append(o, <<k, v>>)

\* o.k = v where v may be undefined: an undefined value leaves no entry.
PutOpt(o, k, v) ==
  IF v = None THEN SelectSeq(o, LAMBDA e : e[1] # k) ELSE Put(o, k, v[1])

\* Set.has
SetHas(s, x) == \E i \in DOMAIN s : s[i] = x

\* Set.add
SetAdd(s, x) == IF SetHas(s, x) THEN s ELSE Append(s, x)

(***************************************************************************)
(* lockfile.ts                                                             *)
(***************************************************************************)
RECURSIVE ReplaceSlashes(_)
\* .replace(/\//g, "-")
ReplaceSlashes(s) ==
  IF s = <<>> THEN <<>>
  ELSE <<IF s[1] = "/" THEN "-" ELSE s[1]>> \o ReplaceSlashes(Tail(s))

\* depName.replace(/^@/, "").replace(/\//g, "-")
SafeName(depName) ==
  ReplaceSlashes(IF depName # <<>> /\ depName[1] = "@" THEN Tail(depName) ELSE depName)

getRelativePath(from, to) ==
  LET relativePath == PathRelative(from, to)
  IN IF ~StartsWith(relativePath, Dot) THEN DotSlash \o relativePath
     ELSE relativePath

\* RewriteEntry without the test of the "workspace:" prefix.
RewriteEntryAnySpecifier(depName, depInfo, deps_internal, importerOutputDir, workspacesDir) ==
  IF SetHas(deps_internal, depName)
    THEN LET relativePath == getRelativePath(importerOutputDir,
                               PathJoin(workspacesDir, SafeName(depName)))
         IN [specifier |-> FilePrefix \o relativePath,
             version |-> LinkPrefix \o relativePath]
    ELSE depInfo

\* One iteration of the loop of rewriteImporterDependencies: the entry stored
\* in result[depName].
RewriteEntry(depName, depInfo, deps_internal, importerOutputDir, workspacesDir) ==
  IF SetHas(deps_internal, depName) /\ StartsWith(depInfo.specifier, WorkspacePrefix)
    THEN LET safeName == SafeName(depName)
             depDir == PathJoin(workspacesDir, safeName)
             relativePath == getRelativePath(importerOutputDir, depDir)
         IN [specifier |-> FilePrefix \o relativePath,
             version |-> LinkPrefix \o relativePath]
    ELSE depInfo

\* deps is undefined (None) or Some(object of name -> entry).
rewriteImporterDependencies(deps, deps_internal, importerOutputDir, workspacesDir) ==
  IF deps = None THEN None
  ELSE Some([i \in DOMAIN deps[1] |->
               <<deps[1][i][1],
                 RewriteEntry(deps[1][i][1], deps[1][i][2], deps_internal,
                              importerOutputDir, workspacesDir)>>])

(***************************************************************************)
(* Inputs of pruneLockfile                                                 *)
(***************************************************************************)
MaxImporters == 2
MaxDeps == 2
MaxDepth == 2

PkgA == <<"p", "/", "a">>
PkgB == <<"p", "/", "b">>
ImporterPaths == {RootImporter, PkgA, PkgB}
TargetDirs == {RootImporter, PkgA}

ScopedName == <<"@", "s", "/", "b">>
FlatName == <<"s", "-", "b">>
PlainName == <<"c">>
DepNames == {ScopedName, FlatName, PlainName}

WorkspaceLink == [specifier |-> WorkspacePrefix \o <<"*">>,
                  version |-> LinkPrefix \o <<".", ".", "/", "b">>]
Pinned == [specifier |-> <<"1", ".", "2">>, version |-> <<"1", ".", "2">>]

\* ImporterData: the three dependency categories, each optional, and one
\* field of no known shape.
ImporterLinked ==
  << <<"dependencies", << <<ScopedName, WorkspaceLink>>, <<PlainName, Pinned>> >> >>,
     <<"optionalDependencies", << <<FlatName, WorkspaceLink>> >> >>,
     <<"publishDirectory", <<"d">> >> >>
ImporterPinned ==
  << <<"dependencies", <<>> >>,
     <<"devDependencies", << <<FlatName, Pinned>>, <<PlainName, WorkspaceLink>> >> >> >>
ImporterOf(path) == IF path = PkgB THEN ImporterPinned ELSE ImporterLinked

DistinctSeqs(S, n) ==
  {s \in UNION {[1..k -> S] : k \in 0..n} :
     \A i, j \in DOMAIN s : i # j => s[i] # s[j]}

\* lockfile.importers: undefined, or importer path -> ImporterData.
ImportersInputs ==
  {None} \cup
  {Some([i \in DOMAIN ps |-> <<ps[i], ImporterOf(ps[i])>>]) :
     ps \in DistinctSeqs(ImporterPaths, MaxImporters)}

LockfileVersion == <<"9", ".", "0">>
Packages == << <<"c@1.2", <<"r">> >> >>
Settings == << <<"autoInstallPeers", <<"t">> >> >>
TopLevelInputs ==
  { << <<"lockfileVersion", LockfileVersion>> >>,
    << <<"lockfileVersion", LockfileVersion>>, <<"packages", Packages>> >>,
    << <<"settings", Settings>>, <<"lockfileVersion", LockfileVersion>>,
       <<"packages", Packages>> >> }

LockfileInputs ==
  {PutOpt(top, "importers", imps) : top \in TopLevelInputs, imps \in ImportersInputs}

\* WorkspaceRegistry: name -> undefined or a package with its rootRelativeDir.
\* Only the names of internalDeps are ever looked up, so the others are left
\* unregistered.
RegistryInputs(names) ==
  {r \in [DepNames -> {None} \cup {Some([rootRelativeDir |-> d]) : d \in ImporterPaths}] :
     \A n \in DepNames : ~SetHas(names, n) => r[n] = None}

OutDir == <<"/", "o">>
RewriteContextInputs ==
  {None,
   Some([outputDir |-> OutDir,
         workspacesDir |-> OutDir \o Slash \o <<"w", "o", "r", "k", "s", "p", "a", "c", "e", "s">>]),
   Some([outputDir |-> OutDir, workspacesDir |-> OutDir \o Slash \o <<"l", "i", "b">>])}

\* Directories for getRelativePath on its own.
Segments == {<<"o">>, <<"w">>, <<".", "w">>}
PathDirs ==
  {Slash \o JoinWith(segs, Slash) : segs \in UNION {[1..k -> Segments] : k \in 0..MaxDepth}}

(***************************************************************************)
(* State                                                                   *)
(***************************************************************************)
VARIABLES
  lockfile,                 \* argument
  targetRelativeDir,        \* argument
  internalDeps,             \* argument: Set<string>
  registry,                 \* argument
  rewriteContext,           \* argument, optional
  pc,                       \* position in pruneLockfile
  pruned,                   \* the object under construction
  relevantDirs,             \* Set<string>
  importerPathToOutputDir,  \* Map<string, string>
  importerPathToNewPath,    \* Map<string, string>
  next,                     \* index of the next entry of Object.entries(lockfile.importers)
  emittedFrom,              \* for each key of pruned.importers, the input path last stored there
  returned,                 \* the value returned, once returned
  from,                     \* getRelativePath: argument
  to,                       \* getRelativePath: argument
  relative                  \* getRelativePath: result, once returned

vars == <<lockfile, targetRelativeDir, internalDeps, registry, rewriteContext, pc,
          pruned, relevantDirs, importerPathToOutputDir, importerPathToNewPath,
          next, emittedFrom, returned, from, to, relative>>

inputs == <<lockfile, targetRelativeDir, internalDeps, registry, rewriteContext>>
pathVars == <<from, to, relative>>

registryGet(depName) == registry[depName]

Init ==
  /\ lockfile \in LockfileInputs
  /\ targetRelativeDir \in TargetDirs
  /\ internalDeps \in DistinctSeqs(DepNames, MaxDeps)
  /\ registry \in RegistryInputs(internalDeps)
  /\ rewriteContext \in RewriteContextInputs
  /\ pc = "start"
  /\ pruned = <<>>
  /\ relevantDirs = <<>>
  /\ importerPathToOutputDir = <<>>
  /\ importerPathToNewPath = <<>>
  /\ next = 1
  /\ emittedFrom = <<>>
  /\ returned = None
  /\ from = OutDir
  /\ to = OutDir
  /\ relative = None

(***************************************************************************)
(* pruneLockfile, block by block                                           *)
(***************************************************************************)
ImporterEntries == Get(lockfile, "importers")

\* const pruned = { lockfileVersion: lockfile.lockfileVersion }
InitialPruned(lf) == << <<"lockfileVersion", Get(lf, "lockfileVersion")>> >>

\* if (!lockfile.importers) return { ...lockfile }
ReturnCopy ==
  /\ pc = "start"
  /\ ~Has(lockfile, "importers")
  /\ pruned' = InitialPruned(lockfile)
  /\ returned' = Some(lockfile)
  /\ pc' = "done"
  /\ UNCHANGED <<inputs, relevantDirs, importerPathToOutputDir, importerPathToNewPath,
                 next, emittedFrom, pathVars>>

Begin ==
  /\ pc = "start"
  /\ Has(lockfile, "importers")
  /\ pruned' = InitialPruned(lockfile)
  /\ pc' = "relevantDirs"
  /\ UNCHANGED <<inputs, relevantDirs, importerPathToOutputDir, importerPathToNewPath,
                 next, emittedFrom, returned, pathVars>>

RECURSIVE RelevantDirsLoop(_, _)
\* for (const depName of internalDeps) { ... relevantDirs.add(pkg.rootRelativeDir) }
RelevantDirsLoop(deps, acc) ==
  IF deps = <<>> THEN acc
  ELSE LET pkg == registryGet(deps[1])
       IN RelevantDirsLoop(Tail(deps),
                           IF pkg # None THEN SetAdd(acc, pkg[1].rootRelativeDir) ELSE acc)

BuildRelevantDirs ==
  /\ pc = "relevantDirs"
  /\ relevantDirs' = RelevantDirsLoop(internalDeps, <<targetRelativeDir>>)
  /\ pc' = "outputDirs"
  /\ UNCHANGED <<inputs, pruned, importerPathToOutputDir, importerPathToNewPath,
                 next, emittedFrom, returned, pathVars>>

RECURSIVE OutputDirLoop(_, _, _)
\* importerPathToOutputDir.set(pkg.rootRelativeDir, path.join(workspacesDir, safeName))
OutputDirLoop(deps, workspacesDir, acc) ==
  IF deps = <<>> THEN acc
  ELSE LET pkg == registryGet(deps[1])
       IN OutputDirLoop(Tail(deps), workspacesDir,
            IF pkg # None
              THEN Put(acc, pkg[1].rootRelativeDir, PathJoin(workspacesDir, SafeName(deps[1])))
              ELSE acc)

BuildOutputDirs ==
  /\ pc = "outputDirs"
  /\ importerPathToOutputDir' =
       IF rewriteContext # None
         THEN OutputDirLoop(internalDeps, rewriteContext[1].workspacesDir,
                            << <<targetRelativeDir, rewriteContext[1].outputDir>> >>)
         ELSE <<>>
  /\ pc' = "newPaths"
  /\ UNCHANGED <<inputs, pruned, relevantDirs, importerPathToNewPath,
                 next, emittedFrom, returned, pathVars>>

RECURSIVE NewPathLoop(_, _)
\* importerPathToNewPath.set(pkg.rootRelativeDir, `workspaces/${safeName}`)
NewPathLoop(deps, acc) ==
  IF deps = <<>> THEN acc
  ELSE LET pkg == registryGet(deps[1])
       IN NewPathLoop(Tail(deps),
            IF pkg # None
              THEN Put(acc, pkg[1].rootRelativeDir, WorkspacesKeyPrefix \o SafeName(deps[1]))
              ELSE acc)

\* The table of lines 123-133, then pruned.importers = {}.
BuildNewPaths ==
  /\ pc = "newPaths"
  /\ importerPathToNewPath' =
       IF rewriteContext # None
         THEN NewPathLoop(internalDeps, << <<targetRelativeDir, RootImporter>> >>)
         ELSE <<>>
  /\ pruned' = Put(pruned, "importers", <<>>)
  /\ pc' = "importers"
  /\ UNCHANGED <<inputs, relevantDirs, importerPathToOutputDir,
                 next, emittedFrom, returned, pathVars>>

\* SkipsRoot with the comparison of the target inverted.
SkipsRootOfRootTarget(importerPath, target) ==
  importerPath = RootImporter /\ target = RootImporter

\* if (importerPath === "." && targetRelativeDir !== ".") continue
SkipsRoot(importerPath, target) == importerPath = RootImporter /\ target # RootImporter

\* IsRelevant counting the target alone.
IsRelevantTargetOnly(importerPath, dirs) == importerPath = dirs[1]

\* relevantDirs.has(importerPath)
IsRelevant(importerPath, dirs) == SetHas(dirs, importerPath)

\* importerPathToNewPath.get(importerPath) ?? importerPath
NewImporterPath(importerPath, newPaths) ==
  LET found == Lookup(newPaths, importerPath)
  IN IF found # None THEN found[1] ELSE importerPath

\* A string is falsy exactly when it is undefined or empty.
Truthy(opt) == opt # None /\ opt[1] # <<>>

\* { ...importerData } with its three dependency categories rewritten.
RewrittenImporter(importerData, deps_internal, importerOutputDir, workspacesDir) ==
  LET rw(category) ==
        rewriteImporterDependencies(Lookup(importerData, category), deps_internal,
                                    importerOutputDir, workspacesDir)
      d1 == PutOpt(importerData, "dependencies", rw("dependencies"))
      d2 == PutOpt(d1, "devDependencies", rw("devDependencies"))
  IN PutOpt(d2, "optionalDependencies", rw("optionalDependencies"))

\* pruned.importers[newImporterPath] = data
Emit(importerPath, newImporterPath, data) ==
  /\ pruned' = Put(pruned, "importers", Put(Get(pruned, "importers"), newImporterPath, data))
  /\ emittedFrom' = Put(emittedFrom, newImporterPath, importerPath)

InLoop == pc = "importers" /\ next <= Len(ImporterEntries)

SkipRoot ==
  /\ InLoop
  /\ SkipsRoot(ImporterEntries[next][1], targetRelativeDir)
  /\ next' = next + 1
  /\ UNCHANGED <<inputs, pc, pruned, relevantDirs, importerPathToOutputDir,
                 importerPathToNewPath, emittedFrom, returned, pathVars>>

SkipIrrelevant ==
  /\ InLoop
  /\ ~SkipsRoot(ImporterEntries[next][1], targetRelativeDir)
  /\ ~IsRelevant(ImporterEntries[next][1], relevantDirs)
  /\ next' = next + 1
  /\ UNCHANGED <<inputs, pc, pruned, relevantDirs, importerPathToOutputDir,
                 importerPathToNewPath, emittedFrom, returned, pathVars>>

EmitRewritten ==
  /\ InLoop
  /\ LET importerPath == ImporterEntries[next][1]
         importerData == ImporterEntries[next][2]
         importerOutputDir == Lookup(importerPathToOutputDir, importerPath)
     IN /\ ~SkipsRoot(importerPath, targetRelativeDir)
        /\ IsRelevant(importerPath, relevantDirs)
        /\ rewriteContext # None /\ Truthy(importerOutputDir)
        /\ Emit(importerPath, NewImporterPath(importerPath, importerPathToNewPath),
                RewrittenImporter(importerData, internalDeps, importerOutputDir[1],
                                  rewriteContext[1].workspacesDir))
  /\ next' = next + 1
  /\ UNCHANGED <<inputs, pc, relevantDirs, importerPathToOutputDir,
                 importerPathToNewPath, returned, pathVars>>

EmitOriginal ==
  /\ InLoop
  /\ LET importerPath == ImporterEntries[next][1]
         importerData == ImporterEntries[next][2]
         importerOutputDir == Lookup(importerPathToOutputDir, importerPath)
     IN /\ ~SkipsRoot(importerPath, targetRelativeDir)
        /\ IsRelevant(importerPath, relevantDirs)
        /\ ~(rewriteContext # None /\ Truthy(importerOutputDir))
        /\ Emit(importerPath, NewImporterPath(importerPath, importerPathToNewPath),
                importerData)
  /\ next' = next + 1
  /\ UNCHANGED <<inputs, pc, relevantDirs, importerPathToOutputDir,
                 importerPathToNewPath, returned, pathVars>>

\* if (lockfile.packages) pruned.packages = lockfile.packages
WithPackages(p, lf) ==
  IF Has(lf, "packages") THEN Put(p, "packages", Get(lf, "packages")) ELSE p

CopyPackages ==
  /\ pc = "importers" /\ next > Len(ImporterEntries)
  /\ pruned' = WithPackages(pruned, lockfile)
  /\ pc' = "rest"
  /\ UNCHANGED <<inputs, relevantDirs, importerPathToOutputDir, importerPathToNewPath,
                 next, emittedFrom, returned, pathVars>>

HandledKeys == {"lockfileVersion", "importers", "packages"}

RECURSIVE WithRestInverted(_, _)
\* WithRest with the test of the handled keys inverted.
WithRestInverted(p, entries) ==
  IF entries = <<>> THEN p
  ELSE WithRestInverted(IF entries[1][1] \in {"lockfileVersion", "packages"}
                          THEN Put(p, entries[1][1], entries[1][2]) ELSE p,
                        Tail(entries))

RECURSIVE WithRest(_, _)
\* for (const [key, value] of Object.entries(lockfile)) if (!handled) pruned[key] = value
WithRest(p, entries) ==
  IF entries = <<>> THEN p
  ELSE WithRest(IF entries[1][1] \notin HandledKeys
                  THEN Put(p, entries[1][1], entries[1][2]) ELSE p,
                Tail(entries))

CopyRestAndReturn ==
  /\ pc = "rest"
  /\ pruned' = WithRest(pruned, lockfile)
  /\ returned' = Some(pruned')
  /\ pc' = "done"
  /\ UNCHANGED <<inputs, relevantDirs, importerPathToOutputDir, importerPathToNewPath,
                 next, emittedFrom, pathVars>>

Next ==
  \/ ReturnCopy
  \/ Begin
  \/ BuildRelevantDirs
  \/ BuildOutputDirs
  \/ BuildNewPaths
  \/ SkipRoot
  \/ SkipIrrelevant
  \/ EmitRewritten
  \/ EmitOriginal
  \/ CopyPackages
  \/ CopyRestAndReturn

Spec == Init /\ [][Next]_vars

(***************************************************************************)
(* getRelativePath on its own                                              *)
(***************************************************************************)
InitPath ==
  /\ lockfile = << <<"lockfileVersion", LockfileVersion>> >>
  /\ targetRelativeDir = RootImporter
  /\ internalDeps = <<>>
  /\ registry = [n \in DepNames |-> None]
  /\ rewriteContext = None
  /\ pc = "getRelativePath"
  /\ pruned = <<>>
  /\ relevantDirs = <<>>
  /\ importerPathToOutputDir = <<>>
  /\ importerPathToNewPath = <<>>
  /\ next = 1
  /\ emittedFrom = <<>>
  /\ returned = None
  /\ from \in PathDirs
  /\ to \in PathDirs
  /\ relative = None

CallGetRelativePath ==
  /\ pc = "getRelativePath"
  /\ relative' = Some(getRelativePath(from, to))
  /\ pc' = "done"
  /\ UNCHANGED <<inputs, pruned, relevantDirs, importerPathToOutputDir,
                 importerPathToNewPath, next, emittedFrom, returned, from, to>>

NextPath == CallGetRelativePath

SpecPath == InitPath /\ [][NextPath]_vars

(***************************************************************************)
(* Vocabulary of the properties                                            *)
(***************************************************************************)
Categories == {"dependencies", "devDependencies", "optionalDependencies"}

InternalNames == {internalDeps[i] : i \in DOMAIN internalDeps}
ResolvedNames == {n \in InternalNames : registry[n] # None}
DirOf(n) == registry[n][1].rootRelativeDir

\* targetDir plus the rootRelativeDir of every registered internal dependency.
ExpectedRelevant == {targetRelativeDir} \cup {DirOf(n) : n \in ResolvedNames}

InputImporters == IF Has(lockfile, "importers") THEN Get(lockfile, "importers") ELSE <<>>

\* The input importer paths that pass the root exclusion and the relevance filter.
ExpectedPaths ==
  {p \in Keys(InputImporters) :
     p \in ExpectedRelevant /\ ~(p = RootImporter /\ targetRelativeDir # RootImporter)}

\* pruned.importers as built so far.
EmittedImporters == IF Has(pruned, "importers") THEN Get(pruned, "importers") ELSE <<>>

\* The importers of the returned lockfile.
Finished == pc = "done" /\ returned # None /\ Has(lockfile, "importers")
ResultImporters == Get(returned[1], "importers")

WithRelocation == rewriteContext # None

\* The names of one dependency category of an importer (none when it is absent).
NamesIn(data, category) ==
  IF Has(data, category) THEN Keys(Get(data, category)) ELSE {}

\* The path of a rewritten specifier "file:<rel>".
RelOf(entry) == SubSeq(entry.specifier, Len(FilePrefix) + 1, Len(entry.specifier))

\* The place, relative to the output root, that the link path rel names when
\* it is read from the importer at key k.
ResolveAgainst(k, rel) ==
  JoinWith(NormalizeSegs(SplitSlash(k \o Slash \o rel), TRUE, <<>>), Slash)

\* The first segment of path p is the parent-directory marker.
BeginsWithParent(p) == StartsWith(p, DotDot) /\ (Len(p) = 2 \/ p[3] = "/")

(***************************************************************************)
(* C1                                                                      *)
(***************************************************************************)
\* C1: without a relocation context, the result's importers are exactly the
\* input's importers whose path is relevant (targetDir or the rootRelativeDir
\* of a registered internal dependency) and not the excluded root; each keeps
\* its key and its data.
C1_RestrictionWithoutRelocation ==
  (Finished /\ ~WithRelocation) =>
    /\ Keys(ResultImporters) = ExpectedPaths
    /\ \A k \in Keys(ResultImporters) : Get(ResultImporters, k) = Get(InputImporters, k)

C1_Witness ==
  /\ Finished /\ ~WithRelocation
  /\ targetRelativeDir # RootImporter
  /\ RootImporter \in Keys(InputImporters)
  /\ RootImporter \in ExpectedRelevant
  /\ \E k \in Keys(ResultImporters) : k # targetRelativeDir
  /\ Keys(ResultImporters) # Keys(InputImporters)

(***************************************************************************)
(* C2                                                                      *)
(***************************************************************************)
RootExcluded == RootImporter \in Keys(InputImporters) /\ targetRelativeDir # RootImporter

\* C2 as stated: whenever the input has the importer "." and targetDir is not
\* ".", the key "." is absent from the result's importers, with or without a
\* relocation context.
C2_RootKeyAbsent ==
  (Finished /\ RootExcluded) => RootImporter \notin Keys(ResultImporters)

\* C2 amended: in those calls the input's root importer is never stored in the
\* result; without a relocation context the key "." is absent, and with one
\* the key "." holds only the importer the input has at targetDir.
C2_RootImporterNeverEmitted ==
  RootExcluded =>
    /\ \A k \in Keys(emittedFrom) : Get(emittedFrom, k) # RootImporter
    /\ ~WithRelocation => RootImporter \notin Keys(EmittedImporters)
    /\ RootImporter \in Keys(EmittedImporters) =>
         Get(emittedFrom, RootImporter) = targetRelativeDir

C2_Witness ==
  /\ Finished /\ RootExcluded /\ WithRelocation
  /\ RootImporter \in ExpectedRelevant
  /\ RootImporter \in Keys(ResultImporters)

(***************************************************************************)
(* C3                                                                      *)
(***************************************************************************)
\* C3: with a relocation context, the target's importer (if the input has it)
\* is emitted under ".", and the importer at the rootRelativeDir of every
\* resolved internal dependency (if the input has it) is emitted under
\* "workspaces/" + safeName(name), for every registry.  Importers dropped by
\* the root exclusion of C2 are left out of the statement.
C3_RelocatedKeys ==
  (Finished /\ WithRelocation) =>
    /\ targetRelativeDir \in ExpectedPaths =>
         /\ RootImporter \in Keys(ResultImporters)
         /\ Get(emittedFrom, RootImporter) = targetRelativeDir
    /\ \A n \in ResolvedNames :
         DirOf(n) \in ExpectedPaths =>
           /\ (WorkspacesKeyPrefix \o SafeName(n)) \in Keys(ResultImporters)
           /\ Get(emittedFrom, WorkspacesKeyPrefix \o SafeName(n)) = DirOf(n)

(***************************************************************************)
(* C4                                                                      *)
(***************************************************************************)
\* C4: with a relocation context, in every emitted importer and each of the
\* three categories, the entries are those of the input importer, and an entry
\* whose specifier does not start with "workspace:" or whose name is not in
\* internalDeps is the input's entry; only internal-named "workspace:" entries
\* differ.
C4_RewriteSelectivity ==
  WithRelocation =>
    \A k \in Keys(EmittedImporters) : \A category \in Categories :
      LET out == Get(EmittedImporters, k)
          inp == Get(InputImporters, Get(emittedFrom, k))
      IN /\ Has(out, category) = Has(inp, category)
         /\ NamesIn(out, category) = NamesIn(inp, category)
         /\ \A name \in NamesIn(inp, category) :
              LET was == Get(Get(inp, category), name)
                  now == Get(Get(out, category), name)
              IN (~StartsWith(was.specifier, WorkspacePrefix) \/ name \notin InternalNames)
                   => now = was

C4_Witness ==
  /\ Finished /\ WithRelocation
  /\ \E k \in Keys(ResultImporters) :
       LET out == Get(ResultImporters, k)
           inp == Get(InputImporters, Get(emittedFrom, k))
       IN /\ \E category \in Categories : \E name \in NamesIn(inp, category) :
               /\ name \in InternalNames
               /\ ~StartsWith(Get(Get(inp, category), name).specifier, WorkspacePrefix)
          /\ \E category \in Categories : \E name \in NamesIn(inp, category) :
               Get(Get(out, category), name) # Get(Get(inp, category), name)

(***************************************************************************)
(* C5                                                                      *)
(***************************************************************************)
\* C5: a name of internalDeps the registry does not resolve adds no directory
\* to relevantDirs, and every dependency entry for that name in an emitted
\* importer is the input's entry, "workspace:" entries with a relocation
\* context included.
C5_UnresolvedNamePassesThrough ==
  /\ \A i \in DOMAIN relevantDirs : relevantDirs[i] \in ExpectedRelevant
  /\ \A k \in Keys(EmittedImporters) : \A category \in Categories :
       LET out == Get(EmittedImporters, k)
           inp == Get(InputImporters, Get(emittedFrom, k))
       IN \A name \in NamesIn(inp, category) :
            (name \in InternalNames /\ name \notin ResolvedNames) =>
              Get(Get(out, category), name) = Get(Get(inp, category), name)

(***************************************************************************)
(* C6                                                                      *)
(***************************************************************************)
\* The new output directories the claim gives the importer at path p.
OwnOutputDirs(p) ==
  IF p = targetRelativeDir THEN {rewriteContext[1].outputDir}
  ELSE {PathJoin(rewriteContext[1].workspacesDir, SafeName(n)) :
          n \in {m \in ResolvedNames : DirOf(m) = p}}

\* C6: with a relocation context, every internal-named "workspace:" entry of
\* an emitted importer is {specifier: "file:" + rel, version: "link:" + rel},
\* rel being the path from the importer's own new output directory (outputDir
\* for the target, workspacesDir/safeName(its name) for an internal
\* dependency) to workspacesDir/safeName(entry name).
C6_RewrittenEntries ==
  WithRelocation =>
    \A k \in Keys(EmittedImporters) : \A category \in Categories :
      LET out == Get(EmittedImporters, k)
          p == Get(emittedFrom, k)
          inp == Get(InputImporters, p)
      IN \A name \in NamesIn(inp, category) :
           (name \in InternalNames
              /\ StartsWith(Get(Get(inp, category), name).specifier, WorkspacePrefix)) =>
             \E own \in OwnOutputDirs(p) :
               LET rel == getRelativePath(own,
                            PathJoin(rewriteContext[1].workspacesDir, SafeName(name)))
               IN Get(Get(out, category), name) =
                    [specifier |-> FilePrefix \o rel, version |-> LinkPrefix \o rel]

(***************************************************************************)
(* C7                                                                      *)
(***************************************************************************)
\* C7: getRelativePath(from, to) is the raw relativization when that begins
\* with the parent-directory marker "..", and "./" followed by the raw
\* relativization otherwise.
C7_ExplicitRelative ==
  relative # None =>
    LET raw == PathRelative(from, to)
    IN relative[1] = IF BeginsWithParent(raw) THEN raw ELSE DotSlash \o raw

(***************************************************************************)
(* C8                                                                      *)
(***************************************************************************)
\* C8: the returned lockfile has the input's value for every top-level key
\* other than importers, has no key the input lacks other than importers, and
\* is the input itself when the input has no importers.
C8_TopLevelPassThrough ==
  (pc = "done" /\ returned # None) =>
    /\ \A k \in Keys(lockfile) \ {"importers"} :
         Has(returned[1], k) /\ Get(returned[1], k) = Get(lockfile, k)
    /\ Keys(returned[1]) \subseteq Keys(lockfile)
    /\ ~Has(lockfile, "importers") => returned[1] = lockfile

C8_Witness ==
  /\ Finished
  /\ Has(lockfile, "packages") /\ Has(lockfile, "settings")
  /\ Keys(returned[1]) = {"lockfileVersion", "importers", "packages", "settings"}

(***************************************************************************)
(* C9                                                                      *)
(***************************************************************************)
\* C9: with a relocation context, the relevant input importers are emitted
\* under distinct keys: the result has as many importers as the input has
\* importers that pass the filter.
C9_NoImporterLost ==
  (Finished /\ WithRelocation) =>
    Cardinality(Keys(ResultImporters)) = Cardinality(ExpectedPaths)

(***************************************************************************)
(* C10                                                                     *)
(***************************************************************************)
\* C10: with a relocation context, the link path of every rewritten entry for
\* a registered internal dependency d, resolved against the key of the
\* importer holding it, is the key of d's own importer,
\* "workspaces/" + safeName(d).
C10_LinksResolveToKeys ==
  WithRelocation =>
    \A k \in Keys(EmittedImporters) : \A category \in Categories :
      LET out == Get(EmittedImporters, k)
          inp == Get(InputImporters, Get(emittedFrom, k))
      IN \A d \in NamesIn(inp, category) :
           (d \in ResolvedNames
              /\ Get(Get(out, category), d) # Get(Get(inp, category), d)) =>
             ResolveAgainst(k, RelOf(Get(Get(out, category), d)))
               = WorkspacesKeyPrefix \o SafeName(d)

====
